---- MODULE Spec2Model ----
(***************************************************************************)
(* Model of the Form / ModelForm components of                             *)
(* frontend/components/Form.js.                                            *)
(*                                                                         *)
(* FormSpec  : one Form instance (field state, dirty flag, submit          *)
(*             pipeline, unsaved-navigation guard).                        *)
(* ModelSpec : one ModelForm instance (entity list, create / update /      *)
(*             delete requests and their responses).                       *)
(***************************************************************************)
EXTENDS Integers, Sequences, FiniteSets, Bags, TLC

(***************************************************************************)
(* Bounds                                                                  *)
(***************************************************************************)
MaxSubmits == 2      \* submit clicks per Form run
MaxPending == 2      \* onSubmit promises in flight at once

(***************************************************************************)
(* JavaScript values                                                       *)
(***************************************************************************)
Undefined == [t |-> "undefined"]
Null == [t |-> "null"]
Str(s) == [t |-> "string", s |-> s]
Bool(b) == [t |-> "boolean", b |-> b]
Num(n) == [t |-> "number", n |-> n]
Option(v, l) == [t |-> "option", value |-> v, label |-> l]
Arr(items) == [t |-> "array", items |-> items]

\* JS truthiness, as used by `value || ''`, `val ? .. : ..` and Boolean(val)
Truthy(v) ==
  CASE v.t = "undefined" -> FALSE
    [] v.t = "null" -> FALSE
    [] v.t = "string" -> v.s # ""
    [] v.t = "boolean" -> v.b
    [] v.t = "number" -> v.n # 0
    [] v.t = "NaN" -> FALSE
    [] OTHER -> TRUE

\* a || b
JsOr(a, b) == IF Truthy(a) THEN a ELSE b

(***************************************************************************)
(* Caller-supplied converter / reverser pairs (props of a descriptor).     *)
(* "toOption" : id => ({value: id, label: ...})                            *)
(* "toValue"  : opt => opt.value                                           *)
(* "parseInt" : str => parseInt(str)                                       *)
(***************************************************************************)
RoleLabel(n) == IF n = 5 THEN "Officer" ELSE "Member"

NaN == [t |-> "NaN"]

\* parseInt on the strings the text inputs of the model can hold
parseInt(v) ==
  IF v.t # "string" THEN NaN
  ELSE CASE v.s = "42" -> Num(42)
         [] v.s = "2020-01-01" -> Num(2020)
         [] OTHER -> NaN

ApplyFn(fn, v) ==
  CASE fn = "toOption" -> Option(v.n, RoleLabel(v.n))
    [] fn = "toValue" -> Num(v.value)
    [] fn = "parseInt" -> parseInt(v)
    [] OTHER -> v

MapFn_reversed(fn, items) ==
  [i \in 1..Len(items) |-> ApplyFn(fn, items[Len(items) + 1 - i])]

\* items.map(fn)
MapFn(fn, items) == [i \in 1..Len(items) |-> ApplyFn(fn, items[i])]

(***************************************************************************)
(* Field descriptors of the modelled form                                  *)
(***************************************************************************)
RECURSIVE getAllFields(_)

Leaf(name, type, converter, reverser) ==
  [name |-> name, type |-> type, fields |-> <<>>,
   converter |-> converter, reverser |-> reverser]

Group(name, fields) ==
  [name |-> name, type |-> "group", fields |-> fields,
   converter |-> "none", reverser |-> "none"]

FormFields ==
  << Leaf("name", "text", "none", "none"),
     Group("details", << Leaf("role", "select", "toOption", "toValue") >>),
     Leaf("logo", "file", "none", "none") >>

getAllFields_oneLevel(fields) ==
  IF fields = <<>> THEN <<>>
  ELSE (IF Head(fields).type = "group" THEN Head(fields).fields
        ELSE <<Head(fields)>>) \o getAllFields(Tail(fields))

getAllFields(fields) ==
  IF fields = <<>> THEN <<>>
  ELSE LET item == Head(fields)
       IN  (IF item.type = "group" THEN getAllFields(item.fields)
            ELSE <<item>>) \o getAllFields(Tail(fields))

LeafNames(fields) ==
  {getAllFields(fields)[i].name : i \in 1..Len(getAllFields(fields))}

FieldNamed(name) ==
  LET all == getAllFields(FormFields)
  IN  all[CHOOSE i \in 1..Len(all) : all[i].name = name]

(***************************************************************************)
(* Form: construction and payload extraction                               *)
(***************************************************************************)
EmptyObject == [n \in {} |-> Undefined]

\* source[key], undefined when the key is absent
Get(source, key) == IF key \in DOMAIN source THEN source[key] ELSE Undefined

\* one iteration of the forEach in setDefaults, for a non-group field
DefaultFieldState(item, value) ==
  CASE item.type = "html" -> EmptyObject
    [] item.type = "multiselect" ->
         (item.name :> Arr(MapFn(item.converter,
                                 IF Truthy(value) THEN value.items ELSE <<>>)))
    [] item.type = "select" ->
         (item.name :> (IF Truthy(value) THEN ApplyFn(item.converter, value)
                        ELSE Null))
    [] OTHER -> (item.name :> JsOr(value, Str("")))

RECURSIVE setDefaults(_, _)
setDefaults(fields, defaults) ==
  IF fields = <<>> THEN EmptyObject
  ELSE LET item == Head(fields)
       IN  (IF item.type = "group" THEN setDefaults(item.fields, defaults)
            ELSE DefaultFieldState(item, Get(defaults, item.name)))
           @@ setDefaults(Tail(fields), defaults)

getFieldData_raw(name, source, field) == Get(source, name)

getFieldData(name, source, field) ==
  LET val == Get(source, name)
  IN  CASE field.type = "multiselect" ->
             Arr(MapFn(field.reverser,
                       IF Truthy(val) THEN val.items ELSE <<>>))
        [] field.type = "select" ->
             (IF Truthy(val) THEN ApplyFn(field.reverser, val) ELSE val)
        [] field.type = "checkbox" -> Bool(Truthy(val))
        [] field.type = "date" -> JsOr(val, Null)
        \* new FormData().append(..) evaluates to undefined
        [] field.type = "file" -> Undefined
        [] OTHER ->
             (IF field.converter # "none" THEN ApplyFn(field.converter, val)
              ELSE val)

getData(source) ==
  LET all == getAllFields(FormFields)
  IN  [n \in LeafNames(FormFields) |-> getFieldData(n, source, FieldNamed(n))]

(***************************************************************************)
(* Form: inputs                                                            *)
(***************************************************************************)
RoleChoices == {Option(5, "Officer"), Option(7, "Member")}

\* values a widget can hand to its change handler
WidgetInputs(field) ==
  CASE field.type \in {"text", "url", "email", "date", "number", "textarea"} ->
         {Str("Chess Club"), Str("Chess Club NYC")}
    [] field.type = "checkbox" -> {Bool(TRUE), Bool(FALSE)}
    [] field.type = "select" -> RoleChoices
    [] OTHER -> {}

NoFile == "none"
FileNames == {"logo.png"}

DefaultsSet ==
  { EmptyObject,
    ("name" :> Str("Chess Club")) @@ ("role" :> Num(5)) }

\* submitButton / disabledSubmitButton: which of the two elements is passed
ButtonProps == {<<FALSE, FALSE>>, <<TRUE, FALSE>>, <<TRUE, TRUE>>}

PropsSet ==
  {[onSubmit |-> o, submitButton |-> b[1], disabledSubmitButton |-> b[2],
    defaults |-> d] : o \in BOOLEAN, b \in ButtonProps, d \in DefaultsSet}

NoCall == [n \in {"none"} |-> Undefined]

(***************************************************************************)
(* Form: state                                                             *)
(***************************************************************************)
VARIABLES
  props,          \* this.props of the Form
  lifecycle,      \* "constructed" | "mounted" | "unmounted"
  edited,         \* this.state.edited
  fieldState,     \* this.state['field-<name>']
  uploadStatus,   \* this.state.uploadStatus : name -> file name
  files,          \* this.files[name].files[0] of the file inputs
  listeners,      \* handlers registered on window / Router.events
  pending,        \* onSubmit promises not yet settled
  plainPending,   \* then-callback of an already resolved promise is queued
  nCalls,         \* number of calls of props.onSubmit
  lastCall,       \* argument of the latest call of props.onSubmit
  cleanSinceCall, \* no field was edited since the latest call of props.onSubmit
  ev              \* the latest operation and what it did

formVars == <<props, lifecycle, edited, fieldState, uploadStatus, files,
              listeners, pending, plainPending, nCalls, lastCall,
              cleanSinceCall, ev>>

(***************************************************************************)
(* ModelForm: state                                                        *)
(***************************************************************************)
VARIABLES
  serverList,     \* what GET {baseUrl}?format=json answers
  fetching,       \* mount-time fetch not completed (state.objects is null)
  objects,        \* this.state.objects: references into heap, in order
  heap,           \* the entity objects the closures of render() refer to
  newCount,       \* this.state.newCount
  net,            \* requests issued by doApiRequest and not yet answered
  parsing,        \* resp.json() promises of ok create responses, unresolved
  nReq,           \* number of requests issued after the fetch
  serverNext,     \* next identifier the server assigns to a created entity
  mev             \* the latest ModelForm operation

modelVars == <<serverList, fetching, objects, heap, newCount, net, parsing,
               nReq, serverNext, mev>>

(***************************************************************************)
(* The page: the Form instances React has created and the two event        *)
(* targets their navigation guards are registered on                       *)
(***************************************************************************)
VARIABLES
  forms,            \* per Form instance: its lifecycle and state.edited
  windowListeners,  \* 'beforeunload' listeners of window
  routerListeners,  \* 'routeChangeStart' handlers of Router.router.events
  gev               \* the latest operation on the page

guardVars == <<forms, windowListeners, routerListeners, gev>>

(***************************************************************************)
(* A Form over an arbitrary descriptor list: rendering and extraction      *)
(***************************************************************************)
VARIABLES
  fieldsProp,       \* this.props.fields
  defaultsProp,     \* this.props.defaults
  stateFields,      \* this.state['field-<name>'] of that Form
  stateMounted,     \* this.state.mounted
  submitData,       \* what the latest step handed to props.onSubmit
  markup,           \* what generateFields returned at the latest render
  fev               \* the latest operation on that Form

fieldVars == <<fieldsProp, defaultsProp, stateFields, stateMounted,
               submitData, markup, fev>>

(***************************************************************************)
(* EventPage: state                                                        *)
(***************************************************************************)
VARIABLES
  searchInput,      \* the searchInput state
  currentSearch,    \* currentSearch.current
  searches,         \* effect runs that issued requests: their isCurrent
                    \* flag and the state of their two requests
  liveEvents,       \* the liveEvents state
  upcomingEvents,   \* the upcomingEvents state
  isLoading,        \* the isLoading state
  eev               \* the latest operation on the page

eventVars == <<searchInput, currentSearch, searches, liveEvents,
               upcomingEvents, isLoading, eev>>

(***************************************************************************)
(* InviteCard: state                                                       *)
(***************************************************************************)
VARIABLES
  inviteEmails,     \* the inviteEmails state, as the pieces split() yields
  isInviting,       \* the isInviting state
  invitePercentage, \* the invitePercentage state: <<>> for null
  emails,           \* const emails of the latest sendInvites run
  sent,             \* the batches that run has passed to sendInviteBatch
  awaiting,         \* the run awaits the answer to its latest batch
  phase,            \* "idle", "single", "batched", "returned" or "threw"
  inviteRuns,       \* number of sendInvites runs started
  iev               \* the latest operation on the card

inviteVars == <<inviteEmails, isInviting, invitePercentage, emails, sent,
                awaiting, phase, inviteRuns, iev>>

(***************************************************************************)
(* TabView: state                                                          *)
(***************************************************************************)
VARIABLES
  tabsProp,         \* the tabs prop: descriptors with name and disabled
  currentTab,       \* the currentTab state
  windowLocation,   \* window.location: path and hash
  tabMounted,       \* the mount effect has run
  clicked,          \* the names of the tabs clicked, in order
  tev               \* the latest operation on the TabView

tabVars == <<tabsProp, currentTab, windowLocation, tabMounted, clicked, tev>>

vars == <<formVars, modelVars, guardVars, fieldVars, eventVars, inviteVars,
          tabVars>>

\* what an action of one component leaves alone
outsideForm ==
  <<modelVars, guardVars, fieldVars, eventVars, inviteVars, tabVars>>
outsideModel ==
  <<formVars, guardVars, fieldVars, eventVars, inviteVars, tabVars>>
outsideGuard ==
  <<formVars, modelVars, fieldVars, eventVars, inviteVars, tabVars>>
outsideFields ==
  <<formVars, modelVars, guardVars, eventVars, inviteVars, tabVars>>
outsideEvents ==
  <<formVars, modelVars, guardVars, fieldVars, inviteVars, tabVars>>
outsideInvites ==
  <<formVars, modelVars, guardVars, fieldVars, eventVars, tabVars>>
outsideTabs ==
  <<formVars, modelVars, guardVars, fieldVars, eventVars, inviteVars>>

(***************************************************************************)
(* ModelForm: values                                                       *)
(***************************************************************************)
MaxObjects == 3      \* entity objects ever held by one ModelForm
MaxRequests == 2     \* save / delete requests issued by one ModelForm

Absent == -1         \* `typeof object.id === 'undefined'`, a missing key
NoName == "undefined"

DataValues == {"A", "B"}    \* payloads the embedded Form hands to onSubmit

ServerEntity(i) == [id |-> i, name |-> "A"]

ServerLists ==
  { <<>>, <<ServerEntity(1)>>, <<ServerEntity(2), ServerEntity(1)>> }

FirstCreatedId == 3  \* identifiers 1 and 2 are taken by the fetched entities

Entity(id, tempId, status, name) ==
  [id |-> id, tempId |-> tempId, status |-> status, name |-> name]

Request(method, id, body, obj) ==
  [method |-> method, id |-> id, body |-> body, obj |-> obj]

One(x) == SetToBag({x})

MEv(op, obj, ok, method, body) ==
  [op |-> op, obj |-> obj, ok |-> ok, method |-> method, body |-> body]

GEv(op, form, prompted) == [op |-> op, form |-> form, prompted |-> prompted]

\* no Form instance has been created
GuardAbsent ==
  /\ forms = <<>>
  /\ windowListeners = {}
  /\ routerListeners = <<>>
  /\ gev = GEv("init", 0, {})

FEv(op, name) == [op |-> op, name |-> name]

EEv(op, search) == [op |-> op, search |-> search]

IEv(op, success, reloaded) ==
  [op |-> op, success |-> success, reloaded |-> reloaded]

TEv(op, tabName) == [op |-> op, name |-> tabName]

\* a string as the sequence of its parts; '' is <<>>
EmptyString == <<>>

\* a page without a TabView, at /settings with no fragment
TabsAbsent ==
  /\ tabsProp = <<>>
  /\ currentTab = EmptyString
  /\ windowLocation = [path |-> "/settings", hash |-> EmptyString]
  /\ tabMounted = FALSE
  /\ clicked = <<>>
  /\ tev = TEv("init", EmptyString)

\* the InviteCard as rendered first
InvitesAbsent ==
  /\ inviteEmails = <<>>
  /\ isInviting = FALSE
  /\ invitePercentage = <<>>
  /\ emails = <<>>
  /\ sent = <<>>
  /\ awaiting = FALSE
  /\ phase = "idle"
  /\ inviteRuns = 0
  /\ iev = IEv("init", FALSE, FALSE)

\* getInitialSearch(): no name typed, no tag selected
InitialSearch == "none"

\* the events the server lists for a search
EventsFor(query) == [query |-> query]

\* the EventPage as rendered first, before any search
EventsAbsent ==
  /\ searchInput = InitialSearch
  /\ currentSearch = InitialSearch
  /\ searches = <<>>
  /\ liveEvents = EventsFor(InitialSearch)
  /\ upcomingEvents = EventsFor(InitialSearch)
  /\ isLoading = FALSE
  /\ eev = EEv("init", 0)

\* no Form over another descriptor list is followed
FieldsAbsent ==
  /\ fieldsProp = <<>>
  /\ defaultsProp = [n \in {} |-> [t |-> "undefined"]]
  /\ stateFields = [n \in {} |-> [t |-> "undefined"]]
  /\ stateMounted = FALSE
  /\ submitData = [n \in {} |-> [t |-> "undefined"]]
  /\ markup = <<>>
  /\ fev = FEv("init", "-")

\* the Form on its own: no ModelForm on the page
ModelAbsent ==
  /\ serverList = <<>>
  /\ fetching = TRUE
  /\ objects = <<>>
  /\ heap = <<>>
  /\ newCount = 0
  /\ net = EmptyBag
  /\ parsing = EmptyBag
  /\ nReq = 0
  /\ serverNext = FirstCreatedId
  /\ mev = MEv("init", 0, FALSE, "", "")

Ev(op, name, val, prompted, aborted) ==
  [op |-> op, name |-> name, val |-> val, prompted |-> prompted,
   aborted |-> aborted]

FileFieldNames ==
  {n \in LeafNames(FormFields) : FieldNamed(n).type = "file"}

FormInit ==
  /\ props \in PropsSet
  /\ lifecycle = "constructed"
  /\ edited = FALSE
  /\ fieldState = setDefaults(FormFields, props.defaults)
  /\ uploadStatus = EmptyObject
  /\ files = [n \in FileFieldNames |-> NoFile]
  /\ listeners = {}
  /\ pending = 0
  /\ plainPending = FALSE
  /\ nCalls = 0
  /\ lastCall = NoCall
  /\ cleanSinceCall = FALSE
  /\ ev = Ev("init", "-", Undefined, FALSE, FALSE)
  /\ ModelAbsent
  /\ GuardAbsent
  /\ FieldsAbsent
  /\ EventsAbsent
  /\ InvitesAbsent
  /\ TabsAbsent

\* the user can act on the rendered form; a queued then-callback of an
\* already resolved promise runs before any further event is dispatched
Interactive == lifecycle = "mounted" /\ ~plainPending

componentDidMount ==
  /\ lifecycle = "constructed"
  /\ lifecycle' = "mounted"
  /\ listeners' = listeners \cup {"beforeunload", "routeChangeStart"}
  /\ ev' = Ev("mount", "-", Undefined, FALSE, FALSE)
  /\ UNCHANGED outsideForm
  /\ UNCHANGED <<props, cleanSinceCall, edited, fieldState, uploadStatus,
                 files, pending, plainPending, nCalls, lastCall>>

componentWillUnmount ==
  /\ lifecycle = "mounted"
  /\ ~plainPending
  /\ lifecycle' = "unmounted"
  /\ listeners' = listeners \ {"beforeunload", "routeChangeStart"}
  /\ ev' = Ev("unmount", "-", Undefined, FALSE, FALSE)
  /\ UNCHANGED outsideForm
  /\ UNCHANGED <<props, cleanSinceCall, edited, fieldState, uploadStatus,
                 files, pending, plainPending, nCalls, lastCall>>

checkIfEdited_skips(ed) == ed

\* this.state.edited || this.setState({ edited: true })
checkIfEdited(ed) == IF ed THEN ed ELSE TRUE

\* the onChange closures of generateField: this.onChange(e), then
\* this.setState({ ['field-' + name]: value })
onChange(name, val) ==
  /\ Interactive
  /\ edited' = checkIfEdited(edited)
  /\ fieldState' = [fieldState EXCEPT ![name] = val]
  /\ cleanSinceCall' = FALSE
  /\ ev' = Ev("change", name, val, FALSE, FALSE)
  /\ UNCHANGED outsideForm
  /\ UNCHANGED <<props, lifecycle, uploadStatus, files, listeners, pending,
                 plainPending, nCalls, lastCall>>

handleUpload(name, file) ==
  /\ Interactive
  /\ files' = [files EXCEPT ![name] = file]
  /\ IF file # NoFile
       THEN /\ uploadStatus' = (name :> file) @@ uploadStatus
            /\ edited' = TRUE
            /\ cleanSinceCall' = FALSE
       ELSE UNCHANGED <<uploadStatus, edited, cleanSinceCall>>
  /\ ev' = Ev("upload", name, Str(file), FALSE, FALSE)
  /\ UNCHANGED outsideForm
  /\ UNCHANGED <<props, lifecycle, fieldState, listeners, pending,
                 plainPending, nCalls, lastCall>>

handleUploadClick(name) ==
  /\ Interactive
  /\ uploadStatus' = [n \in DOMAIN uploadStatus \ {name} |-> uploadStatus[n]]
  /\ ev' = Ev("uploadClick", name, Undefined, FALSE, FALSE)
  /\ UNCHANGED outsideForm
  /\ UNCHANGED <<props, cleanSinceCall, lifecycle, edited, fieldState, files,
                 listeners, pending, plainPending, nCalls, lastCall>>

getSubmitData == getData(fieldState)

\* render(): is there an element carrying onClick={this.handleSubmit}
SubmitClickable ==
  IF edited THEN TRUE
  ELSE IF props.disabledSubmitButton THEN FALSE
  ELSE props.submitButton

\* handleSubmit; `result` is what the caller's onSubmit does when called:
\* return a plain value, return a promise, or throw
handleSubmit(result) ==
  /\ Interactive
  /\ SubmitClickable
  /\ uploadStatus' = EmptyObject
  /\ IF ~props.onSubmit
       THEN /\ result = "none"
            /\ ev' = Ev("submitNoop", "-", Undefined, FALSE, FALSE)
            /\ UNCHANGED <<nCalls, lastCall, pending, plainPending,
                           cleanSinceCall>>
       ELSE /\ result \in {"value", "promise", "throws"}
            /\ nCalls < MaxSubmits
            /\ nCalls' = nCalls + 1
            /\ lastCall' = getSubmitData
            /\ cleanSinceCall' = TRUE
            /\ ev' = Ev("submit", result, Undefined, FALSE, FALSE)
            /\ CASE result = "value" ->
                      plainPending' = TRUE /\ UNCHANGED pending
                 [] result = "promise" ->
                      /\ pending < MaxPending
                      /\ pending' = pending + 1
                      /\ UNCHANGED plainPending
                 [] OTHER -> UNCHANGED <<pending, plainPending>>
  /\ UNCHANGED outsideForm
  /\ UNCHANGED <<props, lifecycle, edited, fieldState, files, listeners>>

submitFulfilled_keepsEdited(ed) == ed

\* the then-callback of handleSubmit: this.setState({ edited: false });
\* setState on an unmounted component is dropped by React
submitFulfilled(ed) == IF lifecycle = "mounted" THEN FALSE ELSE ed

FulfilPlain ==
  /\ plainPending
  /\ plainPending' = FALSE
  /\ edited' = submitFulfilled(edited)
  /\ ev' = Ev("fulfil", "value", Undefined, FALSE, FALSE)
  /\ UNCHANGED outsideForm
  /\ UNCHANGED <<props, cleanSinceCall, lifecycle, fieldState, uploadStatus,
                 files, listeners, pending, nCalls, lastCall>>

FulfilPromise ==
  /\ pending > 0
  /\ ~plainPending
  /\ pending' = pending - 1
  /\ edited' = submitFulfilled(edited)
  /\ ev' = Ev("fulfil", "promise", Undefined, FALSE, FALSE)
  /\ UNCHANGED outsideForm
  /\ UNCHANGED <<props, cleanSinceCall, lifecycle, fieldState, uploadStatus,
                 files, listeners, plainPending, nCalls, lastCall>>

submitRejected_resets(ed) == FALSE

\* the promise returned by onSubmit rejects: .then has no rejection handler
submitRejected(ed) == ed

RejectPromise ==
  /\ pending > 0
  /\ ~plainPending
  /\ pending' = pending - 1
  /\ edited' = submitRejected(edited)
  /\ ev' = Ev("reject", "promise", Undefined, FALSE, FALSE)
  /\ UNCHANGED outsideForm
  /\ UNCHANGED <<props, cleanSinceCall, lifecycle, fieldState, uploadStatus,
                 files, listeners, plainPending, nCalls, lastCall>>

routePrompts_always(ed) == TRUE

\* confirmRouteChange: does window.confirm get called
routePrompts(ed) == ed

\* the router emits routeChangeStart; `answer` is what confirm() returns
\* when it is called.  ev.prompted: the prompt was shown; ev.val: the answer;
\* ev.aborted: abortComponentLoad + routeChangeError + throw were executed
RouteChangeStart(answer) ==
  /\ ~plainPending
  /\ lifecycle # "constructed"
  /\ IF "routeChangeStart" \in listeners /\ routePrompts(edited)
       THEN ev' = Ev("route", "-", Bool(answer), TRUE, ~answer)
       ELSE /\ answer = TRUE
            /\ ev' = Ev("route", "-", Undefined, FALSE, FALSE)
  /\ UNCHANGED outsideForm
  /\ UNCHANGED <<props, cleanSinceCall, lifecycle, edited, fieldState,
                 uploadStatus, files, listeners, pending, plainPending,
                 nCalls, lastCall>>

\* confirmExit: does the handler set e.returnValue (the browser then prompts)
exitPrompts(ed) == ed

\* the window fires beforeunload; ev.prompted: preventDefault was called and
\* returnValue set, so the browser asks the user
BeforeUnload ==
  /\ ~plainPending
  /\ lifecycle # "constructed"
  /\ ev' = Ev("unload", "-", Undefined,
              "beforeunload" \in listeners /\ exitPrompts(edited), FALSE)
  /\ UNCHANGED outsideForm
  /\ UNCHANGED <<props, cleanSinceCall, lifecycle, edited, fieldState,
                 uploadStatus, files, listeners, pending, plainPending,
                 nCalls, lastCall>>

FormNext ==
  \/ componentDidMount
  \/ componentWillUnmount
  \/ \E n \in LeafNames(FormFields) :
       \E v \in WidgetInputs(FieldNamed(n)) : onChange(n, v)
  \/ \E n \in FileFieldNames : \E f \in FileNames \cup {NoFile} :
       handleUpload(n, f)
  \/ \E n \in FileFieldNames : handleUploadClick(n)
  \/ \E r \in {"none", "value", "promise", "throws"} : handleSubmit(r)
  \/ FulfilPlain
  \/ FulfilPromise
  \/ RejectPromise
  \/ \E a \in BOOLEAN : RouteChangeStart(a)
  \/ BeforeUnload

(***************************************************************************)
(* ModelForm                                                               *)
(***************************************************************************)
\* the ModelForm on its own: the state of the embedded Forms is not followed
FormAbsent ==
  /\ props = [onSubmit |-> TRUE, submitButton |-> TRUE,
              disabledSubmitButton |-> FALSE, defaults |-> EmptyObject]
  /\ lifecycle = "constructed"
  /\ edited = FALSE
  /\ fieldState = setDefaults(FormFields, EmptyObject)
  /\ uploadStatus = EmptyObject
  /\ files = [n \in FileFieldNames |-> NoFile]
  /\ listeners = {}
  /\ pending = 0
  /\ plainPending = FALSE
  /\ nCalls = 0
  /\ lastCall = NoCall
  /\ cleanSinceCall = FALSE
  /\ ev = Ev("init", "-", Undefined, FALSE, FALSE)

ModelInit ==
  /\ serverList \in ServerLists
  /\ fetching = TRUE
  /\ objects = <<>>
  /\ heap = <<>>
  /\ newCount = 0
  /\ net = EmptyBag
  /\ parsing = EmptyBag
  /\ nReq = 0
  /\ serverNext = FirstCreatedId
  /\ mev = MEv("init", 0, FALSE, "", "")
  /\ FormAbsent
  /\ GuardAbsent
  /\ FieldsAbsent
  /\ EventsAbsent
  /\ InvitesAbsent
  /\ TabsAbsent

\* Array.prototype.indexOf: zero-based, -1 when absent
indexOf(arr, x) ==
  IF \E i \in 1..Len(arr) : arr[i] = x
    THEN (CHOOSE i \in 1..Len(arr) :
            arr[i] = x /\ \A j \in 1..(i - 1) : arr[j] # x) - 1
    ELSE -1

\* Array.prototype.splice(start, 1): the array that is left
splice(arr, start) ==
  LET len == Len(arr)
      from == IF start < 0
                THEN (IF len + start > 0 THEN len + start ELSE 0)
                ELSE (IF start < len THEN start ELSE len)
      count == IF len - from < 1 THEN len - from ELSE 1
  IN  [i \in 1..(len - count) |->
         IF i <= from THEN arr[i] ELSE arr[i + count]]

removeObject_truncates(arr, obj) ==
  IF indexOf(arr, obj) < 0 THEN SubSeq(arr, 1, Len(arr) - 1)
  ELSE SubSeq(arr, 1, indexOf(arr, obj))

\* objects.splice(objects.indexOf(object), 1)
removeObject(arr, obj) == splice(arr, indexOf(arr, obj))

\* the elements render() maps over
Rendered(obj) == ~fetching /\ \E i \in 1..Len(objects) : objects[i] = obj

fetchedObjects_reversed(resp) ==
  [i \in 1..Len(resp) |-> Len(resp) + 1 - i]

\* componentDidMount's fetch resolves: this.setState({ objects: resp })
fetchedObjects(resp) == [i \in 1..Len(resp) |-> i]

FetchDone ==
  /\ fetching
  /\ fetching' = FALSE
  /\ heap' = [i \in 1..Len(serverList) |->
                Entity(serverList[i].id, Absent, "undefined",
                       serverList[i].name)]
  /\ objects' = fetchedObjects(serverList)
  /\ mev' = MEv("fetch", 0, TRUE, "GET", "")
  /\ UNCHANGED <<serverList, newCount, net, parsing, nReq, serverNext>>
  /\ UNCHANGED outsideModel

beforeResponse_optimistic(object) == [object EXCEPT !.status = "true"]

\* `object` when the request has been issued: onSubmit and the Delete handler
\* assign to it only inside the .then callbacks
beforeResponse(object) == object

\* the request the onSubmit closure issues for `object`
saveRequest(object, obj, data) ==
  IF object.id = Absent
    THEN Request("POST", Absent, data, obj)
    ELSE Request("PATCH", object.id, data, obj)

\* Save: the embedded Form calls onSubmit(data)
SaveClick(obj, data) ==
  /\ Rendered(obj)
  /\ nReq < MaxRequests
  /\ nReq' = nReq + 1
  /\ net' = net (+) One(saveRequest(heap[obj], obj, data))
  /\ heap' = [heap EXCEPT ![obj] = beforeResponse(heap[obj])]
  /\ mev' = MEv("save", obj, FALSE,
             saveRequest(heap[obj], obj, data).method, data)
  /\ UNCHANGED <<serverList, fetching, objects, newCount, parsing,
                 serverNext>>
  /\ UNCHANGED outsideModel

spread_dropsLast(arr) == [i \in 1..(Len(arr) - 1) |-> arr[i]]

\* [...objects]: a new array holding the elements of the latest state.objects
spread(arr) == [i \in 1..Len(arr) |-> arr[i]]

\* object._status after the response to a create
createStatus(ok) == IF ok THEN "true" ELSE "false"

\* the then-callback of the POST; on ok the body is read asynchronously
CreateResponse(req, ok) ==
  /\ BagIn(req, net)
  /\ req.method = "POST"
  /\ net' = net (-) One(req)
  /\ heap' = [heap EXCEPT ![req.obj].status = createStatus(ok)]
  /\ IF ok
       THEN /\ parsing' = parsing (+)
                 One([obj |-> req.obj,
                      resp |-> [id |-> serverNext, name |-> req.body]])
            /\ serverNext' = serverNext + 1
       ELSE UNCHANGED <<parsing, serverNext>>
  /\ objects' = spread(objects)
  /\ mev' = MEv("createResponse", req.obj, ok, req.method, "")
  /\ UNCHANGED <<serverList, fetching, newCount, nReq>>
  /\ UNCHANGED outsideModel

mergeResponse_dropsId(object, resp) == [object EXCEPT !.name = resp.name]

\* Object.keys(resp).forEach(key => { object[key] = resp[key] })
mergeResponse(object, resp) ==
  [object EXCEPT !.id = resp.id, !.name = resp.name]

CreateMerge(p) ==
  /\ BagIn(p, parsing)
  /\ parsing' = parsing (-) One(p)
  /\ heap' = [heap EXCEPT ![p.obj] = mergeResponse(heap[p.obj], p.resp)]
  /\ mev' = MEv("createMerge", p.obj, TRUE, "", "")
  /\ UNCHANGED <<serverList, fetching, objects, newCount, net, nReq,
                 serverNext>>
  /\ UNCHANGED outsideModel

updateStatus_alwaysTrue(ok) == "true"

\* object._status = resp.ok
updateStatus(ok) == IF ok THEN "true" ELSE "false"

UpdateResponse(req, ok) ==
  /\ BagIn(req, net)
  /\ req.method = "PATCH"
  /\ net' = net (-) One(req)
  /\ heap' = [heap EXCEPT ![req.obj].status = updateStatus(ok)]
  /\ objects' = spread(objects)
  /\ mev' = MEv("updateResponse", req.obj, ok, req.method, "")
  /\ UNCHANGED <<serverList, fetching, newCount, parsing, nReq, serverNext>>
  /\ UNCHANGED outsideModel

\* fetch() rejects: none of the .then callbacks has a rejection handler
NetworkError(req) ==
  /\ BagIn(req, net)
  /\ net' = net (-) One(req)
  /\ mev' = MEv("networkError", req.obj, FALSE, req.method, "")
  /\ UNCHANGED <<serverList, fetching, objects, heap, newCount, parsing,
                 nReq, serverNext>>
  /\ UNCHANGED outsideModel

\* Delete clicked on an entity with a persisted id
DeleteClickSaved(obj) ==
  /\ Rendered(obj)
  /\ heap[obj].id # Absent
  /\ nReq < MaxRequests
  /\ nReq' = nReq + 1
  /\ net' = net (+) One(Request("DELETE", heap[obj].id, "", obj))
  /\ heap' = [heap EXCEPT ![obj] = beforeResponse(heap[obj])]
  /\ mev' = MEv("deleteClick", obj, FALSE, "DELETE", "")
  /\ UNCHANGED <<serverList, fetching, objects, newCount, parsing,
                 serverNext>>
  /\ UNCHANGED outsideModel

\* Delete clicked on an entity without a persisted id
DeleteClickUnsaved(obj) ==
  /\ Rendered(obj)
  /\ heap[obj].id = Absent
  /\ objects' = removeObject(objects, obj)
  /\ mev' = MEv("deleteLocal", obj, TRUE, "", "")
  /\ UNCHANGED <<serverList, fetching, heap, newCount, net, parsing, nReq,
                 serverNext>>
  /\ UNCHANGED outsideModel

afterDeleteResponse_ignoresOk(arr, obj, ok) == removeObject(arr, obj)

\* the list after the response to a DELETE for `obj`
afterDeleteResponse(arr, obj, ok) ==
  IF ok THEN removeObject(arr, obj) ELSE arr

DeleteResponse(req, ok) ==
  /\ BagIn(req, net)
  /\ req.method = "DELETE"
  /\ net' = net (-) One(req)
  /\ objects' = afterDeleteResponse(objects, req.obj, ok)
  /\ mev' = MEv("deleteResponse", req.obj, ok, req.method, "")
  /\ UNCHANGED <<serverList, fetching, heap, newCount, parsing, nReq,
                 serverNext>>
  /\ UNCHANGED outsideModel

blankEntity_sameTempId(count) == Entity(Absent, 0, "undefined", NoName)

\* { tempId: newCount }: no id, no _status, no field values
blankEntity(count) == Entity(Absent, count, "undefined", NoName)

\* Create: objects.push({ tempId: newCount }); newCount + 1
CreateClick ==
  /\ ~fetching
  /\ Len(heap) < MaxObjects
  /\ heap' = Append(heap, blankEntity(newCount))
  /\ objects' = Append(objects, Len(heap) + 1)
  /\ newCount' = newCount + 1
  /\ mev' = MEv("create", Len(heap) + 1, TRUE, "", "")
  /\ UNCHANGED <<serverList, fetching, net, parsing, nReq, serverNext>>
  /\ UNCHANGED outsideModel

ModelNext ==
  \/ FetchDone
  \/ \E obj \in 1..Len(heap) : \E data \in DataValues : SaveClick(obj, data)
  \/ \E req \in BagToSet(net) : \E ok \in BOOLEAN : CreateResponse(req, ok)
  \/ \E p \in BagToSet(parsing) : CreateMerge(p)
  \/ \E req \in BagToSet(net) : \E ok \in BOOLEAN : UpdateResponse(req, ok)
  \/ \E req \in BagToSet(net) : NetworkError(req)
  \/ \E obj \in 1..Len(heap) : DeleteClickSaved(obj)
  \/ \E obj \in 1..Len(heap) : DeleteClickUnsaved(obj)
  \/ \E req \in BagToSet(net) : \E ok \in BOOLEAN : DeleteResponse(req, ok)
  \/ CreateClick

(***************************************************************************)
(* Several Form instances on one page (a ModelForm renders one per entity) *)
(***************************************************************************)
MaxForms == 3        \* Form instances created on one page

FormInstance(life, ed) == [life |-> life, edited |-> ed]

\* the bound methods this.confirmExit / this.confirmRouteChange of instance i
\* are identified by i
Mounted == {i \in DOMAIN forms : forms[i].life = "mounted"}

GuardInit ==
  /\ forms = <<>>
  /\ windowListeners = {}
  /\ routerListeners = <<>>
  /\ gev = GEv("init", 0, {})
  /\ FormAbsent
  /\ ModelAbsent
  /\ FieldsAbsent
  /\ EventsAbsent
  /\ InvitesAbsent
  /\ TabsAbsent

\* React creates a Form: the constructor registers nothing
constructForm ==
  /\ Len(forms) < MaxForms
  /\ forms' = Append(forms, FormInstance("constructed", FALSE))
  /\ gev' = GEv("construct", Len(forms) + 1, {})
  /\ UNCHANGED <<windowListeners, routerListeners>>
  /\ UNCHANGED outsideGuard

\* window.addEventListener('beforeunload', handler): a listener already
\* registered is not registered twice
addEventListener(listenerSet, handler) == listenerSet \cup {handler}

\* window.removeEventListener('beforeunload', handler)
removeEventListener(listenerSet, handler) == listenerSet \ {handler}

\* Router.router.events.on('routeChangeStart', handler): pushes the handler
on(handlers, handler) == Append(handlers, handler)

off_keepsHandler(handlers, handler) == handlers

\* Router.router.events.off('routeChangeStart', handler): takes out the first
\* occurrence of the handler, nothing when it is not registered
off(handlers, handler) ==
  IF indexOf(handlers, handler) < 0 THEN handlers
  ELSE splice(handlers, indexOf(handlers, handler))

componentDidMountOf(i) ==
  /\ forms[i].life = "constructed"
  /\ forms' = [forms EXCEPT ![i].life = "mounted"]
  /\ windowListeners' = addEventListener(windowListeners, i)
  /\ routerListeners' = on(routerListeners, i)
  /\ gev' = GEv("mount", i, {})
  /\ UNCHANGED outsideGuard

componentWillUnmountOf(i) ==
  /\ forms[i].life = "mounted"
  /\ forms' = [forms EXCEPT ![i].life = "unmounted"]
  /\ windowListeners' = removeEventListener(windowListeners, i)
  /\ routerListeners' = off(routerListeners, i)
  /\ gev' = GEv("unmount", i, {})
  /\ UNCHANGED outsideGuard

\* a field of the mounted instance i is edited: checkIfEdited sets edited
editForm(i) ==
  /\ forms[i].life = "mounted"
  /\ forms' = [forms EXCEPT ![i].edited = checkIfEdited(forms[i].edited)]
  /\ gev' = GEv("edit", i, {})
  /\ UNCHANGED <<windowListeners, routerListeners>>
  /\ UNCHANGED outsideGuard

\* window fires beforeunload: every registered confirmExit runs;
\* gev.prompted: the instances whose handler set e.returnValue
unloadPage ==
  /\ forms # <<>>
  /\ gev' = GEv("unload", 0,
                {i \in windowListeners : exitPrompts(forms[i].edited)})
  /\ UNCHANGED <<forms, windowListeners, routerListeners>>
  /\ UNCHANGED outsideGuard

GuardNext ==
  \/ constructForm
  \/ \E i \in DOMAIN forms : componentDidMountOf(i)
  \/ \E i \in DOMAIN forms : componentWillUnmountOf(i)
  \/ \E i \in DOMAIN forms : editForm(i)
  \/ unloadPage

(***************************************************************************)
(* A Form over other descriptor lists: every field type, nested groups     *)
(***************************************************************************)
MaxDepth == 3        \* levels of groups nested inside one another

SingleLineTypes == {"text", "url", "email", "number", "date"}

\* a field without a converter and one with a converter, of the same type
SingleLineFields(type) ==
  << Leaf("plain", type, "none", "none"),
     Leaf("conv", type, "parseInt", "none") >>

ChoiceFields ==
  << Leaf("role", "select", "toOption", "toValue"),
     Leaf("tags", "multiselect", "toOption", "toValue") >>

\* "colour" and "ends" have types generateField has no branch for
OtherFields ==
  << Leaf("banner", "component", "none", "none"),
     Leaf("colour", "color", "none", "none"),
     Leaf("starts", "datetime-local", "none", "none"),
     Leaf("ends", "datetime", "none", "none"),
     Leaf("about", "html", "none", "none"),
     Leaf("notes", "textarea", "none", "none"),
     Leaf("active", "checkbox", "none", "none"),
     Leaf("logo", "file", "none", "none") >>

GroupNames == <<"contact", "address", "geo", "extra", "more", "rest">>
NestedNames == <<"phone", "street", "lat", "note", "tail", "last">>

\* d groups inside one another, a text field beside each group
RECURSIVE NestedFields(_)
NestedFields(d) ==
  IF d = 0 THEN << Leaf("name", "text", "none", "none") >>
  ELSE << Leaf(NestedNames[d], "text", "none", "none"),
          Group(GroupNames[d], NestedFields(d - 1)) >>

\* the types whose widget holds a value
ValueTypes ==
  {"text", "url", "email", "number", "date", "textarea", "html", "checkbox",
   "select", "multiselect"}

\* one field of the given type, named after it; the choice fields come with
\* a converter and the reverser that undoes it
ValueField(type) ==
  IF type \in {"select", "multiselect"}
    THEN Leaf(type, type, "toOption", "toValue")
    ELSE Leaf(type, type, "none", "none")

FieldLists ==
  {SingleLineFields(t) : t \in SingleLineTypes}
    \cup {ChoiceFields, OtherFields}
    \cup {NestedFields(d) : d \in 1..MaxDepth}
    \cup {<<ValueField(t)>> : t \in ValueTypes}

\* a non-empty default for every field made by ValueField
ValueDefaults ==
  [t \in ValueTypes |->
     CASE t = "number" -> Num(42)
       [] t = "date" -> Str("2020-01-01")
       [] t = "html" -> Str("<p>42</p>")
       [] t = "checkbox" -> Bool(TRUE)
       [] t = "select" -> Num(5)
       [] t = "multiselect" -> Arr(<<Num(5), Num(7)>>)
       [] OTHER -> Str("42")]

FieldDefaults ==
  { EmptyObject,
    ("plain" :> Str("42")) @@ ("role" :> Num(5))
      @@ ("tags" :> Arr(<<Num(5), Num(7)>>)) @@ ("banner" :> Str("42"))
      @@ ("street" :> Str("42")),
    ValueDefaults }

\* what the widget of a field can hand to its change handler
FieldInputs(field) ==
  CASE field.type \in SingleLineTypes ->
         {Str(""), Str("42"), Str("2020-01-01")}
    [] field.type = "datetime-local" -> {Str("2020-01-01")}
    [] field.type = "textarea" -> {Str(""), Str("42")}
    [] field.type = "html" -> {Str("<p>42</p>")}
    [] field.type = "checkbox" -> {Bool(TRUE), Bool(FALSE)}
    [] field.type = "select" -> RoleChoices
    [] field.type = "multiselect" ->
         {Null, Arr(<<>>), Arr(<<Option(5, "Officer")>>),
          Arr(<<Option(5, "Officer"), Option(7, "Member")>>),
          Arr(<<Option(7, "Member"), Option(5, "Officer")>>)}
    [] OTHER -> {}

\* getData over this.props.fields: data[name] = getFieldData(..) for each
\* element of getAllFields, in order
RECURSIVE collectData(_, _, _)
collectData(all, src, out) ==
  IF all = <<>> THEN out
  ELSE collectData(Tail(all), src,
         (Head(all).name :> getFieldData(Head(all).name, src, Head(all)))
           @@ out)

getDataOf(fieldList, src) ==
  collectData(getAllFields(fieldList), src, EmptyObject)

Node(kind, name, value, children) ==
  [kind |-> kind, name |-> name, value |-> value, children |-> children]

widgetKind_alwaysInput(type, isMounted) == "input"

\* the if / else-if chain of generateField: which element is produced
widgetKind(type, isMounted) ==
  CASE type \in {"text", "url", "email", "date", "number"} -> "input"
    [] type = "datetime-local" -> "DatePicker"
    [] type = "html" -> (IF isMounted THEN "Editor" ELSE "div")
    [] type = "textarea" -> "textarea"
    [] type = "group" -> "card"
    [] type = "component" -> "content"
    [] type = "file" -> "file-input"
    [] type = "multiselect" -> (IF isMounted THEN "Select-multi" ELSE "Loading")
    [] type = "select" -> "Select"
    [] type = "checkbox" -> "checkbox"
    [] OTHER -> "error"

\* the value / selected / checked prop of the element
boundValue(kind, value) ==
  CASE kind \in {"input", "DatePicker", "textarea", "Select", "checkbox"} ->
         value
    [] kind = "Select-multi" -> JsOr(value, Arr(<<>>))
    [] OTHER -> Undefined

RECURSIVE generateFields(_, _, _)
generateField(field, state, isMounted) ==
  LET kind == widgetKind(field.type, isMounted)
  IN  Node(kind, field.name, boundValue(kind, Get(state, field.name)),
           IF field.type = "group"
             THEN generateFields(field.fields, state, isMounted)
             ELSE <<>>)

\* fields.map(this.generateField)
generateFields(fieldList, state, isMounted) ==
  [i \in 1..Len(fieldList) |-> generateField(fieldList[i], state, isMounted)]

FieldsInit ==
  /\ fieldsProp \in FieldLists
  /\ defaultsProp \in FieldDefaults
  /\ stateFields = setDefaults(fieldsProp, defaultsProp)
  /\ stateMounted = FALSE
  /\ submitData = EmptyObject
  /\ markup = generateFields(fieldsProp, stateFields, FALSE)
  /\ fev = FEv("init", "-")
  /\ FormAbsent
  /\ ModelAbsent
  /\ GuardAbsent
  /\ EventsAbsent
  /\ InvitesAbsent
  /\ TabsAbsent

\* componentDidMount: setState({ mounted: true }), then React renders again
mountFields ==
  /\ ~stateMounted
  /\ stateMounted' = TRUE
  /\ markup' = generateFields(fieldsProp, stateFields, TRUE)
  /\ submitData' = EmptyObject
  /\ fev' = FEv("mount", "-")
  /\ UNCHANGED <<fieldsProp, defaultsProp, stateFields>>
  /\ UNCHANGED outsideFields

\* the change handler of the widget of `field`:
\* setState({['field-' + name]: val}), then React renders again
changeField(field, val) ==
  /\ stateMounted
  /\ val \in FieldInputs(field)
  /\ stateFields' = (field.name :> val) @@ stateFields
  /\ markup' = generateFields(fieldsProp, stateFields', stateMounted)
  /\ submitData' = EmptyObject
  /\ fev' = FEv("change", field.name)
  /\ UNCHANGED <<fieldsProp, defaultsProp, stateMounted>>
  /\ UNCHANGED outsideFields

\* handleSubmit: onSubmit(this.getSubmitData()); the setState of
\* uploadStatus makes React render again
submitFields ==
  /\ stateMounted
  /\ submitData' = getDataOf(fieldsProp, stateFields)
  /\ markup' = generateFields(fieldsProp, stateFields, stateMounted)
  /\ fev' = FEv("submit", "-")
  /\ UNCHANGED <<fieldsProp, defaultsProp, stateFields, stateMounted>>
  /\ UNCHANGED outsideFields

AllInputs == UNION {FieldInputs(f) : f \in
                      {getAllFields(fieldsProp)[i] :
                         i \in 1..Len(getAllFields(fieldsProp))}}

FieldsNext ==
  \/ mountFields
  \/ \E i \in 1..Len(getAllFields(fieldsProp)) : \E val \in AllInputs :
       changeField(getAllFields(fieldsProp)[i], val)
  \/ submitFields

(***************************************************************************)
(* EventPage: the search effect                                            *)
(***************************************************************************)
MaxSearches == 2     \* effect runs that issue requests
MaxInputs == 3       \* changes of the search input

SearchValues == {InitialSearch, "chess", "dance"}

Search(value) ==
  [value |-> value, isCurrent |-> TRUE,
   live |-> "pending", upcoming |-> "pending"]

EventsInit ==
  /\ searchInput = InitialSearch
  /\ currentSearch = InitialSearch
  /\ searches = <<>>
  /\ liveEvents = EventsFor(InitialSearch)
  /\ upcomingEvents = EventsFor(InitialSearch)
  /\ isLoading = FALSE
  /\ eev = EEv("init", 0)
  /\ FormAbsent
  /\ ModelAbsent
  /\ GuardAbsent
  /\ FieldsAbsent
  /\ InvitesAbsent
  /\ TabsAbsent

\* the cleanup the latest issuing effect run returned: isCurrent = false.
\* An effect run that returned early has no cleanup of its own.
cleanup(runs) ==
  IF runs = <<>> THEN runs
  ELSE [runs EXCEPT ![Len(runs)].isCurrent = FALSE]

\* equal(searchInput, currentSearch.current)
equal(a, b) == a = b

\* SearchBar calls updateSearch with a new object holding `value`; React
\* renders again, runs the cleanup of the previous effect run, then the effect
setSearchInput(value) ==
  /\ eev.search < MaxInputs
  /\ searchInput' = value
  /\ IF equal(value, currentSearch)
       THEN /\ searches' = cleanup(searches)
            /\ eev' = EEv("sameSearch", eev.search + 1)
            /\ UNCHANGED <<currentSearch, isLoading>>
       ELSE /\ Len(searches) < MaxSearches
            /\ currentSearch' = value
            /\ searches' = Append(cleanup(searches), Search(value))
            /\ isLoading' = TRUE
            /\ eev' = EEv("newSearch", eev.search + 1)
  /\ UNCHANGED <<liveEvents, upcomingEvents>>
  /\ UNCHANGED outsideEvents

\* .then(() => setLoading(false)) of Promise.all: runs when both callbacks
\* of the run have completed
loadingAfter(run, loading) ==
  IF run.live = "done" /\ run.upcoming = "done" THEN FALSE ELSE loading

\* the /events/live/ request of run k is answered and its body parsed
liveResolved(k) ==
  /\ searches[k].live = "pending"
  /\ searches' = [searches EXCEPT ![k].live = "done"]
  /\ liveEvents' = IF searches[k].isCurrent
                     THEN EventsFor(searches[k].value) ELSE liveEvents
  /\ isLoading' = loadingAfter(searches'[k], isLoading)
  /\ eev' = EEv("live", eev.search)
  /\ UNCHANGED <<searchInput, currentSearch, upcomingEvents>>
  /\ UNCHANGED outsideEvents

\* the /events/upcoming/ request of run k is answered and its body parsed
upcomingResolved(k) ==
  /\ searches[k].upcoming = "pending"
  /\ searches' = [searches EXCEPT ![k].upcoming = "done"]
  /\ upcomingEvents' = IF searches[k].isCurrent
                         THEN EventsFor(searches[k].value) ELSE upcomingEvents
  /\ isLoading' = loadingAfter(searches'[k], isLoading)
  /\ eev' = EEv("upcoming", eev.search)
  /\ UNCHANGED <<searchInput, currentSearch, liveEvents>>
  /\ UNCHANGED outsideEvents

\* a request of run k rejects: Promise.all rejects, nothing is set
requestRejected(k, which) ==
  /\ searches[k][which] = "pending"
  /\ searches' = [searches EXCEPT ![k][which] = "failed"]
  /\ eev' = EEv("rejected", eev.search)
  /\ UNCHANGED <<searchInput, currentSearch, liveEvents, upcomingEvents,
                 isLoading>>
  /\ UNCHANGED outsideEvents

EventsNext ==
  \/ \E value \in SearchValues : setSearchInput(value)
  \/ \E k \in DOMAIN searches : liveResolved(k)
  \/ \E k \in DOMAIN searches : upcomingResolved(k)
  \/ \E k \in DOMAIN searches : \E which \in {"live", "upcoming"} :
       requestRejected(k, which)

(***************************************************************************)
(* InviteCard: sendInvites                                                 *)
(***************************************************************************)
MaxEmails == 21      \* addresses typed into the textarea
MaxRuns == 2         \* clicks on the send button
BatchSize == 10

\* One piece of the textarea between two separators (newline, bar or comma):
\* address number `text' (0 for none), possibly with blanks around it.
Piece(text, padded) == [text |-> text, padded |-> padded]

\* n addresses one per line
CleanInput(n) == [i \in 1..n |-> Piece(i, FALSE)]

\* n addresses with blanks around them, an empty or blank piece before
\* each (a doubled separator, a separator followed by spaces)
MessyInput(n) ==
  [i \in 1..(2 * n + 1) |->
     IF i % 2 = 1 THEN Piece(0, i % 4 = 1) ELSE Piece(i \div 2, TRUE)]

EmailCounts == {0, 3, BatchSize, BatchSize + 1, 2 * BatchSize, MaxEmails}
InviteInputs ==
  {CleanInput(n) : n \in EmailCounts} \cup {MessyInput(n) : n \in EmailCounts}

\* email.trim()
trim(email) == [email EXCEPT !.padded = FALSE]

\* email.length
length(email) == IF email.text = 0 THEN (IF email.padded THEN 1 ELSE 0) ELSE 2

RECURSIVE filterNonEmpty(_)
filterNonEmpty(list) ==
  IF list = <<>> THEN <<>>
  ELSE IF length(Head(list)) > 0
       THEN <<Head(list)>> \o filterNonEmpty(Tail(list))
       ELSE filterNonEmpty(Tail(list))

\* inviteEmails.split(..).map(trim).filter(length > 0)
parseEmails(pieces) ==
  filterNonEmpty([i \in DOMAIN pieces |-> trim(pieces[i])])

\* list.slice(from, to) with 0 <= from <= to
slice(list, from, to) ==
  IF from >= Len(list) THEN <<>>
  ELSE SubSeq(list, from + 1, IF to < Len(list) THEN to ELSE Len(list))

RECURSIVE chunksFrom(_, _)
chunksFrom_dropsRemainder(list, i) ==
  IF i + BatchSize > Len(list) THEN <<>>
  ELSE <<slice(list, i, i + BatchSize)>> \o chunksFrom(list, i + BatchSize)

\* for (let i = ..; i < emails.length; i += 10) chunks.push(slice(i, i + 10))
chunksFrom(list, i) ==
  IF i >= Len(list) THEN <<>>
  ELSE <<slice(list, i, i + BatchSize)>> \o chunksFrom(list, i + BatchSize)

chunks == chunksFrom(emails, 0)

NoPercentage == <<>>
Percentage(num, den) == <<num, den>>

InvitesInit ==
  /\ InvitesAbsent
  /\ FormAbsent
  /\ ModelAbsent
  /\ GuardAbsent
  /\ FieldsAbsent
  /\ EventsAbsent
  /\ TabsAbsent

\* onChange of the textarea, which is never disabled
setInviteEmails(pieces) ==
  /\ inviteEmails' = pieces
  /\ iev' = IEv("type", FALSE, FALSE)
  /\ UNCHANGED <<isInviting, invitePercentage, emails, sent, awaiting,
                 phase, inviteRuns>>
  /\ UNCHANGED outsideInvites

\* click on the send button (disabled while isInviting): sendInvites up to
\* its first await
sendInvites ==
  /\ ~isInviting
  /\ inviteRuns < MaxRuns
  /\ inviteRuns' = inviteRuns + 1
  /\ emails' = parseEmails(inviteEmails)
  /\ isInviting' = TRUE
  /\ awaiting' = TRUE
  /\ iev' = IEv("send", FALSE, FALSE)
  /\ IF Len(emails') <= BatchSize
     THEN /\ sent' = <<emails'>>
          /\ phase' = "single"
          /\ UNCHANGED invitePercentage
     ELSE /\ invitePercentage' = Percentage(0, 1)
          /\ sent' = <<chunksFrom(emails', 0)[1]>>
          /\ phase' = "batched"
  /\ UNCHANGED inviteEmails
  /\ UNCHANGED outsideInvites

\* the awaited sendInviteBatch resolves with the parsed body; sendInvites
\* continues up to its next await or its end
batchAnswered(success) ==
  /\ awaiting
  /\ UNCHANGED <<emails, inviteRuns>>
  /\ IF phase = "single"
     THEN /\ inviteEmails' = IF success THEN <<>> ELSE inviteEmails
          /\ isInviting' = FALSE
          /\ awaiting' = FALSE
          /\ phase' = "returned"
          /\ iev' = IEv("answered", success, TRUE)
          /\ UNCHANGED <<invitePercentage, sent>>
     ELSE IF ~success
     THEN /\ isInviting' = FALSE
          /\ invitePercentage' = NoPercentage
          /\ awaiting' = FALSE
          /\ phase' = "returned"
          /\ iev' = IEv("answered", FALSE, TRUE)
          /\ UNCHANGED <<inviteEmails, sent>>
     ELSE IF Len(sent) < Len(chunks)
     THEN /\ invitePercentage' = Percentage(Len(sent), Len(chunks))
          /\ sent' = Append(sent, chunks[Len(sent) + 1])
          /\ iev' = IEv("answered", TRUE, FALSE)
          /\ UNCHANGED <<inviteEmails, isInviting, awaiting, phase>>
     ELSE /\ inviteEmails' = <<>>
          /\ isInviting' = FALSE
          /\ invitePercentage' = NoPercentage
          /\ awaiting' = FALSE
          /\ phase' = "returned"
          /\ iev' = IEv("answered", TRUE, TRUE)
          /\ UNCHANGED sent
  /\ UNCHANGED outsideInvites

\* the awaited sendInviteBatch rejects (the request fails or the body is not
\* JSON): the exception leaves sendInvites, through the finally block when
\* the await is inside the try
batchRejected ==
  /\ awaiting
  /\ awaiting' = FALSE
  /\ phase' = "threw"
  /\ IF phase = "single"
     THEN /\ isInviting' = FALSE
          /\ iev' = IEv("rejected", FALSE, TRUE)
     ELSE /\ iev' = IEv("rejected", FALSE, FALSE)
          /\ UNCHANGED isInviting
  /\ UNCHANGED <<inviteEmails, invitePercentage, emails, sent, inviteRuns>>
  /\ UNCHANGED outsideInvites

InvitesNext ==
  \/ \E pieces \in InviteInputs : setInviteEmails(pieces)
  \/ sendInvites
  \/ \E success \in BOOLEAN : batchAnswered(success)
  \/ batchRejected

(***************************************************************************)
(* TabView                                                                 *)
(***************************************************************************)
MaxClicks == 3       \* clicks on tabs

Tab(tabName, disabled) == [name |-> <<tabName>>, disabled |-> disabled]

\* the tabs of the settings page, all enabled or one of them disabled
TabLists ==
  { <<Tab("Clubs", FALSE), Tab("Bookmarks", FALSE),
      Tab("Subscriptions", FALSE), Tab("Profile", FALSE)>>,
    <<Tab("Clubs", FALSE), Tab("Bookmarks", TRUE),
      Tab("Subscriptions", FALSE), Tab("Profile", FALSE)>>,
    <<Tab("Clubs", TRUE), Tab("Profile", FALSE)>> }

\* `#${name}`
fragmentFor_bare(tabName) == tabName

fragmentFor(tabName) == <<"#">> \o tabName

\* the fragments the page may be opened with: none, a tab, a disabled tab,
\* no tab at all
InitialHashes ==
  {EmptyString, <<"#", "Profile">>, <<"#", "Bookmarks">>, <<"#", "nosuch">>}

\* string.substring(1)
substring1(string) == IF string = EmptyString THEN EmptyString ELSE Tail(string)

\* a || b on strings
orElse(a, b) == IF a # EmptyString THEN a ELSE b

\* tabs.filter((tab) => !tab.disabled)
enabledTabs(tabs) == SelectSeq(tabs, LAMBDA tab : ~tab.disabled)

\* window.history.replaceState(undefined, undefined, url) for a url that is
\* a fragment only; location.hash is '' for the fragment '#'
replaceState(loc, url) ==
  [loc EXCEPT !.hash = IF url = <<"#">> THEN EmptyString ELSE url]

\* the page is opened: useState(tabs[0].name) and the first render
TabsInit ==
  /\ tabsProp \in TabLists
  /\ currentTab = tabsProp[1].name
  /\ windowLocation \in [path : {"/settings"}, hash : InitialHashes]
  /\ tabMounted = FALSE
  /\ clicked = <<>>
  /\ tev = TEv("init", EmptyString)
  /\ FormAbsent
  /\ ModelAbsent
  /\ GuardAbsent
  /\ FieldsAbsent
  /\ EventsAbsent
  /\ InvitesAbsent

\* useEffect(.., []) after the first render
mountTabs ==
  /\ ~tabMounted
  /\ tabMounted' = TRUE
  /\ currentTab' = orElse(substring1(windowLocation.hash), currentTab)
  /\ tev' = TEv("mount", EmptyString)
  /\ UNCHANGED <<tabsProp, windowLocation, clicked>>
  /\ UNCHANGED outsideTabs

\* onClick of the link of an enabled tab
clickTab(tabName) ==
  /\ tabMounted
  /\ Len(clicked) < MaxClicks
  /\ \E i \in DOMAIN enabledTabs(tabsProp) :
       enabledTabs(tabsProp)[i].name = tabName
  /\ currentTab' = tabName
  /\ windowLocation' = replaceState(windowLocation, fragmentFor(tabName))
  /\ clicked' = Append(clicked, tabName)
  /\ tev' = TEv("click", tabName)
  /\ UNCHANGED <<tabsProp, tabMounted>>
  /\ UNCHANGED outsideTabs

TabNames == UNION {{tabs[i].name : i \in DOMAIN tabs} : tabs \in TabLists}

TabsNext ==
  \/ mountTabs
  \/ \E tabName \in TabNames : clickTab(tabName)

(***************************************************************************)
(* Specifications                                                          *)
(***************************************************************************)
FormSpec == FormInit /\ [][FormNext]_vars

ModelSpec == ModelInit /\ [][ModelNext]_vars

GuardSpec == GuardInit /\ [][GuardNext]_vars

FieldsSpec == FieldsInit /\ [][FieldsNext]_vars

EventsSpec == EventsInit /\ [][EventsNext]_vars

InvitesSpec == InvitesInit /\ [][InvitesNext]_vars

TabsSpec == TabsInit /\ [][TabsNext]_vars

(***************************************************************************)
(* Properties of the Form (checked under FormSpec)                         *)
(***************************************************************************)
ValueFieldNames == LeafNames(FormFields) \ FileFieldNames

\* C1: every submit calls the caller's onSubmit exactly once, with the
\* payload of the field state at the click (a text field's string, a select
\* field's option value or null); when the result is fulfilled on the mounted
\* form, edited becomes false and no field value changes; a submit that
\* follows a call with no edit in between passes an equal payload.
C1_SubmitFulfilment ==
  [][ /\ ev'.op = "submit" =>
           /\ nCalls' = nCalls + 1
           /\ DOMAIN lastCall' = LeafNames(FormFields)
           /\ lastCall'["name"] = fieldState["name"]
           /\ lastCall'["role"] =
                (IF fieldState["role"] = Null THEN Null
                 ELSE Num(fieldState["role"].value))
           /\ (nCalls > 0 /\ cleanSinceCall => lastCall' = lastCall)
      /\ ev'.op # "submit" => nCalls' = nCalls /\ lastCall' = lastCall
      /\ (ev'.op = "fulfil" /\ lifecycle = "mounted") =>
           /\ edited' = FALSE
           /\ fieldState' = fieldState
           /\ files' = files
    ]_vars

\* a second submit, with nothing edited since the first, has been made and
\* fulfilled on a form whose name field was typed into
C1_Witness ==
  /\ ev.op = "fulfil"
  /\ lifecycle = "mounted"
  /\ nCalls = 2
  /\ cleanSinceCall
  /\ ~edited
  /\ lastCall["name"] = Str("Chess Club NYC")

\* C2: when the promise returned by onSubmit rejects, edited keeps its value
\* (stays true on an edited form), every field value is as before, and the
\* edited form can be submitted again.
C2_SubmitRejection ==
  [][ ev'.op = "reject" =>
        /\ edited' = edited
        /\ fieldState' = fieldState
        /\ files' = files
        /\ (edited /\ Interactive => SubmitClickable')
    ]_vars

C2_Witness ==
  /\ ev.op = "reject"
  /\ lifecycle = "mounted"
  /\ edited
  /\ fieldState["name"] = Str("Chess Club NYC")
  /\ SubmitClickable

\* C3: on a mounted form a route change or page unload prompts exactly when
\* edited is true; a declined route change is aborted and signalled to the
\* router, an accepted or unprompted one is not.
C3_NavigationGuard ==
  lifecycle = "mounted" =>
    /\ ev.op = "route" =>
         /\ ev.prompted = edited
         /\ ev.aborted = (edited /\ ev.val = Bool(FALSE))
    /\ ev.op = "unload" => ev.prompted = edited

\* a route change was declined on an edited form
C3_Witness ==
  /\ lifecycle = "mounted"
  /\ ev.op = "route"
  /\ edited
  /\ ev.prompted
  /\ ev.aborted

\* C4: a change-handler call leaves edited true and the field holding the
\* value passed, other fields untouched; a call repeating the stored value on
\* an edited form changes neither; between change calls only a fulfilled
\* submit resets edited and nothing else alters a field value.
C4_DirtyTracking ==
  [][ /\ ev'.op = "change" =>
           /\ edited'
           /\ fieldState'[ev'.name] = ev'.val
           /\ \A n \in ValueFieldNames \ {ev'.name} :
                fieldState'[n] = fieldState[n]
           /\ (edited /\ fieldState[ev'.name] = ev'.val) =>
                (edited' = edited /\ fieldState' = fieldState)
      /\ ev'.op # "change" => fieldState' = fieldState
      /\ (edited /\ ev'.op # "fulfil") => edited'
    ]_vars

\* the name field was typed into after an earlier submit had reset edited
C4_Witness ==
  /\ ev.op = "change"
  /\ ev.name = "name"
  /\ ev.val = Str("Chess Club NYC")
  /\ nCalls > 0
  /\ edited
  /\ fieldState["name"] = Str("Chess Club NYC")

(***************************************************************************)
(* Properties of the ModelForm (checked under ModelSpec)                   *)
(***************************************************************************)
InList(arr, obj) == \E i \in 1..Len(arr) : arr[i] = obj

Without(arr, obj) == SelectSeq(arr, LAMBDA x : x # obj)

OthersUnchanged(obj) ==
  /\ DOMAIN heap' = DOMAIN heap
  /\ \A o \in DOMAIN heap \ {obj} : heap'[o] = heap[o]

\* C5: Save on an entity without a persisted id issues one POST carrying the
\* payload and changes nothing locally; an ok response marks the entity
\* succeeded and starts reading the body; the merge gives that same entity
\* (same temporary id, same place in the list) the server-assigned id.
C5_CreateSave ==
  [][ /\ (mev'.op = "save" /\ heap[mev'.obj].id = Absent) =>
           /\ mev'.body \in DataValues
           /\ net' = net (+) One(Request("POST", Absent, mev'.body, mev'.obj))
           /\ nReq' = nReq + 1
           /\ objects' = objects
           /\ heap' = heap
      /\ (mev'.op = "createResponse" /\ mev'.ok) =>
           /\ heap'[mev'.obj].status = "true"
           /\ heap'[mev'.obj].tempId = heap[mev'.obj].tempId
           /\ OthersUnchanged(mev'.obj)
           /\ objects' = objects
           /\ \E p \in BagToSet(parsing') :
                /\ p.obj = mev'.obj
                /\ p.resp.id # Absent
                /\ parsing' = parsing (+) One(p)
      /\ mev'.op = "createMerge" =>
           /\ \E p \in BagToSet(parsing) :
                /\ p.obj = mev'.obj
                /\ parsing' = parsing (-) One(p)
                /\ heap'[mev'.obj].id = p.resp.id
                /\ heap'[mev'.obj].name = p.resp.name
           /\ heap'[mev'.obj].id # Absent
           /\ heap'[mev'.obj].tempId = heap[mev'.obj].tempId
           /\ heap'[mev'.obj].status = heap[mev'.obj].status
           /\ OthersUnchanged(mev'.obj)
           /\ objects' = objects
    ]_vars

\* a blank entity was saved: it is still listed, now with a server id
C5_Witness ==
  /\ mev.op = "createMerge"
  /\ InList(objects, mev.obj)
  /\ heap[mev.obj].tempId # Absent
  /\ heap[mev.obj].id >= FirstCreatedId
  /\ heap[mev.obj].status = "true"

\* C6: a create or update whose response is not ok, or whose request fails at
\* the network level, sets the entity's status to failed, leaves the list as
\* it is and assigns no id.
C6_FailedSave ==
  [][ ( \/ mev'.op \in {"createResponse", "updateResponse"} /\ ~mev'.ok
        \/ mev'.op = "networkError" /\ mev'.method \in {"POST", "PATCH"} ) =>
        /\ heap'[mev'.obj].status = "false"
        /\ heap'[mev'.obj].id = heap[mev'.obj].id
        /\ objects' = objects
    ]_vars

\* C7: Delete on an entity with a persisted id issues one DELETE for that id
\* and leaves the list alone; a response that is not ok leaves the list
\* alone; an ok response leaves the list without the entity; a listed entity
\* with a persisted id leaves the list only in an ok DELETE response.
C7_DeleteSaved ==
  [][ /\ mev'.op = "deleteClick" =>
           /\ heap[mev'.obj].id # Absent
           /\ net' = net (+) One(Request("DELETE", heap[mev'.obj].id, "",
                                         mev'.obj))
           /\ nReq' = nReq + 1
           /\ objects' = objects
      /\ (mev'.op = "deleteResponse" /\ ~mev'.ok) => objects' = objects
      /\ (mev'.op = "deleteResponse" /\ mev'.ok) =>
           /\ ~InList(objects', mev'.obj)
           /\ InList(objects, mev'.obj) =>
                objects' = Without(objects, mev'.obj)
      /\ \A o \in DOMAIN heap :
           (heap[o].id # Absent /\ InList(objects, o) /\ ~InList(objects', o))
             => (mev'.op = "deleteResponse" /\ mev'.ok)
    ]_vars

\* a fetched entity was deleted after an ok response, another one remains
C7_Witness ==
  /\ mev.op = "deleteResponse"
  /\ mev.ok
  /\ heap[mev.obj].id # Absent
  /\ ~InList(objects, mev.obj)
  /\ Len(objects) >= 1

\* C8: Delete on an entity without a persisted id takes exactly that entity
\* out of the list in the same step and issues no request.
C8_DeleteUnsaved ==
  [][ mev'.op = "deleteLocal" =>
        /\ heap[mev'.obj].id = Absent
        /\ InList(objects, mev'.obj)
        /\ objects' = Without(objects, mev'.obj)
        /\ Len(objects') = Len(objects) - 1
        /\ net' = net
        /\ nReq' = nReq
        /\ heap' = heap
    ]_vars

\* a blank entity in the middle of the list was deleted locally
C8_Witness ==
  /\ mev.op = "deleteLocal"
  /\ ~InList(objects, mev.obj)
  /\ Len(objects) >= 2
  /\ heap[objects[Len(objects)]].tempId > heap[mev.obj].tempId
  /\ nReq = 0

\* C9: Save on an entity with persisted id i issues one PATCH for i carrying
\* the payload; its response sets the status to succeeded exactly when ok and
\* to failed otherwise; neither step changes the id or the list.
C9_UpdateSave ==
  [][ /\ (mev'.op = "save" /\ heap[mev'.obj].id # Absent) =>
           /\ mev'.body \in DataValues
           /\ net' = net (+) One(Request("PATCH", heap[mev'.obj].id,
                                      mev'.body, mev'.obj))
           /\ nReq' = nReq + 1
           /\ objects' = objects
           /\ heap' = heap
      /\ mev'.op = "updateResponse" =>
           /\ heap'[mev'.obj].status = (IF mev'.ok THEN "true" ELSE "false")
           /\ heap'[mev'.obj].id = heap[mev'.obj].id
           /\ OthersUnchanged(mev'.obj)
           /\ objects' = objects
    ]_vars

\* an update of a listed, fetched entity was answered not ok
C9_Witness ==
  /\ mev.op = "updateResponse"
  /\ ~mev.ok
  /\ InList(objects, mev.obj)
  /\ heap[mev.obj].id \in {1, 2}
  /\ heap[mev.obj].status = "false"

FetchedInOrder(n) ==
  \A i \in 1..n :
    /\ heap[objects[i]].id = serverList[i].id
    /\ heap[objects[i]].name = serverList[i].name
    /\ heap[objects[i]].tempId = Absent

\* C10 as stated: when the mount-time fetch completes, the list is the
\* fetched entities in fetched order plus one blank entity with a temporary id.
C10_MountAppendsBlank ==
  mev.op = "fetch" =>
    /\ Len(objects) = Len(serverList) + 1
    /\ FetchedInOrder(Len(serverList))
    /\ heap[objects[Len(objects)]].id = Absent
    /\ heap[objects[Len(objects)]].tempId # Absent

\* C10 amended: when the mount-time fetch completes, the list is exactly the
\* fetched entities in fetched order; no blank entity is appended.
C10_MountListsFetched ==
  mev.op = "fetch" =>
    /\ ~fetching
    /\ Len(objects) = Len(serverList)
    /\ FetchedInOrder(Len(serverList))
    /\ newCount = 0

\* two entities were fetched, the one with id 2 first
C10_Witness ==
  /\ mev.op = "fetch"
  /\ Len(objects) = 2
  /\ heap[objects[1]].id = 2
  /\ heap[objects[2]].id = 1

ListedUnsaved == {o \in DOMAIN heap : InList(objects, o) /\ heap[o].id = Absent}

\* C11: a Create click puts exactly one blank entity (no id, no status, a
\* temporary id) at the end of the list and leaves the entities before it and
\* their order as they were; in every state, no two listed entities without a
\* persisted id have the same temporary id.
C11_CreateAppends ==
  /\ [](\A a, b \in ListedUnsaved :
          heap[a].tempId = heap[b].tempId => a = b)
  /\ [][ mev'.op = "create" =>
           /\ Len(objects') = Len(objects) + 1
           /\ SubSeq(objects', 1, Len(objects)) = objects
           /\ objects'[Len(objects')] = mev'.obj
           /\ ~InList(objects, mev'.obj)
           /\ heap'[mev'.obj].id = Absent
           /\ heap'[mev'.obj].status = "undefined"
           /\ heap'[mev'.obj].tempId # Absent
           /\ \A o \in DOMAIN heap : heap'[o] = heap[o]
       ]_vars

\* Create was clicked after an earlier blank entity had been deleted, and a
\* blank entity created before that one is still listed
C11_Witness ==
  /\ mev.op = "create"
  /\ \E o \in DOMAIN heap :
       /\ heap[o].tempId # Absent
       /\ ~InList(objects, o)
       /\ heap[o].tempId < heap[mev.obj].tempId
  /\ \E o \in ListedUnsaved : o # mev.obj

RequestsFor(bag, obj) == {r \in BagToSet(bag) : r.obj = obj}

\* C12: the step that issues a save or delete request changes no entity and
\* not the list; an entity's status changes only in a step that takes one of
\* its own save requests out of flight, its id and fields only in the merge
\* that follows its own create response, and an entity with a persisted id
\* leaves the list only in a step that takes a DELETE request out of flight.
C12_NoOptimisticUpdate ==
  [][ /\ mev'.op \in {"save", "deleteClick"} =>
           /\ heap' = heap
           /\ objects' = objects
           /\ \E r \in RequestsFor(net', mev'.obj) : net' = net (+) One(r)
      /\ \A o \in DOMAIN heap :
           /\ heap'[o].status # heap[o].status =>
                \E r \in RequestsFor(net, o) :
                  /\ r.method \in {"POST", "PATCH"}
                  /\ net' = net (-) One(r)
           /\ (heap'[o].id # heap[o].id \/ heap'[o].name # heap[o].name) =>
                \E p \in BagToSet(parsing) :
                  /\ p.obj = o
                  /\ parsing' = parsing (-) One(p)
           /\ (heap[o].id # Absent /\ InList(objects, o)
                 /\ ~InList(objects', o)) =>
                \E r \in BagToSet(net) :
                  /\ r.method = "DELETE"
                  /\ net' = net (-) One(r)
    ]_vars

\* the response to a save changed the status of an entity whose request had
\* been in flight while another operation took place
C12_Witness ==
  /\ mev.op \in {"createResponse", "updateResponse"}
  /\ heap[mev.obj].status # "undefined"
  /\ nReq = MaxRequests
  /\ net # EmptyBag

\* C13: with saves of different entities in flight, a response sets the
\* status of its own entity to its own outcome and leaves every other entity
\* and the membership and order of the list as they were; a status changes in
\* no other step.
C13_ConcurrentSaves ==
  [][ /\ mev'.op \in {"createResponse", "updateResponse"} =>
           /\ heap'[mev'.obj].status = (IF mev'.ok THEN "true" ELSE "false")
           /\ OthersUnchanged(mev'.obj)
           /\ objects' = objects
      /\ mev'.op \notin {"createResponse", "updateResponse"} =>
           \A o \in DOMAIN heap : heap'[o].status = heap[o].status
    ]_vars

\* two saves of different entities were in flight together and have both been
\* answered, one ok and one not: each entity shows its own outcome
C13_Witness ==
  /\ mev.op \in {"createResponse", "updateResponse"}
  /\ net = EmptyBag
  /\ nReq = 2
  /\ Len(objects) >= 2
  /\ \E a, b \in DOMAIN heap :
       /\ a # b
       /\ InList(objects, a) /\ InList(objects, b)
       /\ heap[a].status = "true"
       /\ heap[b].status = "false"

(***************************************************************************)
(* Properties of the page (checked under GuardSpec)                        *)
(***************************************************************************)
Occurrences(handlers, h) ==
  Cardinality({k \in 1..Len(handlers) : handlers[k] = h})

\* C14: across any mounts and unmounts of any number of Form instances, the
\* beforeunload listeners and the routeChangeStart handlers are exactly the
\* handlers of the mounted instances, each registered once; when no instance
\* is mounted no handler is registered.
C14_GuardScoped ==
  /\ windowListeners = Mounted
  /\ \A i \in DOMAIN forms :
       Occurrences(routerListeners, i) = (IF i \in Mounted THEN 1 ELSE 0)
  /\ Len(routerListeners) = Cardinality(Mounted)
  /\ Mounted = {} => (windowListeners = {} /\ routerListeners = <<>>)

\* the instance mounted first was unmounted while two others stay mounted
C14_Witness ==
  /\ gev.op = "unmount"
  /\ gev.form = 1
  /\ Cardinality(Mounted) = 2
  /\ routerListeners = <<2, 3>>

(***************************************************************************)
(* Properties of extraction and rendering                                  *)
(***************************************************************************)
\* the non-group descriptors of a field list, at any depth
RECURSIVE LeavesOf(_)
LeavesOf(fieldList) ==
  UNION { IF fieldList[i].type = "group" THEN LeavesOf(fieldList[i].fields)
          ELSE {fieldList[i]} : i \in 1..Len(fieldList) }

\* the names of the groups of a field list, at any depth
RECURSIVE GroupNamesOf(_)
GroupNamesOf(fieldList) ==
  UNION { IF fieldList[i].type = "group"
            THEN {fieldList[i].name} \cup GroupNamesOf(fieldList[i].fields)
          ELSE {} : i \in 1..Len(fieldList) }

\* C15: at submit, the payload value of a select field is the reverser
\* applied to the stored option, and null when no option is stored; the
\* payload value of a multiselect field is the array of the reverser results
\* of the stored options, in the stored order.
C15_ChoiceExtraction ==
  fev.op = "submit" =>
    \A f \in LeavesOf(fieldsProp) :
      LET stored == stateFields[f.name]
          out == submitData[f.name]
      IN  /\ f.type = "select" =>
               IF stored.t = "option" THEN out = Num(stored.value)
               ELSE stored = Null /\ out = Null
          /\ f.type = "multiselect" =>
               IF stored.t = "array"
                 THEN /\ out.t = "array"
                      /\ Len(out.items) = Len(stored.items)
                      /\ \A k \in 1..Len(stored.items) :
                           out.items[k] = Num(stored.items[k].value)
               ELSE stored = Null /\ out = Arr(<<>>)

\* options 7 and 5 were picked in that order and a role chosen, then submit
C15_Witness ==
  /\ fev.op = "submit"
  /\ fieldsProp = ChoiceFields
  /\ stateFields["role"] = Option(7, "Member")
  /\ stateFields["tags"] = Arr(<<Option(7, "Member"), Option(5, "Officer")>>)
  /\ submitData["role"] = Num(7)
  /\ submitData["tags"] = Arr(<<Num(7), Num(5)>>)

\* C16: at submit, the payload value of a file field is the file selected in
\* its picker.
C16_FileExtraction ==
  ev.op = "submit" =>
    \A n \in FileFieldNames :
      files[n] # NoFile => lastCall[n] = Str(files[n])

RecognizedTypes ==
  {"text", "url", "email", "number", "date", "datetime-local", "textarea",
   "html", "checkbox", "select", "multiselect", "file", "group", "component"}

\* C17: at submit, the name of a field of type component, and of a field of
\* a type that is not recognized, is not a key of the payload.
C17_ComponentEmitsNothing ==
  fev.op = "submit" =>
    \A f \in LeavesOf(fieldsProp) :
      (f.type = "component" \/ f.type \notin RecognizedTypes) =>
        f.name \notin DOMAIN submitData

\* C18 as stated: at submit, the payload value of a text, url, email, number
\* or date field is the stored value when the descriptor has no converter
\* and the converter applied to the stored value when it has one.
C18_SingleLineExtraction ==
  fev.op = "submit" =>
    \A f \in LeavesOf(fieldsProp) :
      f.type \in {"text", "url", "email", "number", "date"} =>
        submitData[f.name] =
          (IF f.converter = "none" THEN stateFields[f.name]
           ELSE ApplyFn(f.converter, stateFields[f.name]))

\* C18 amended: that holds for text, url, email and number fields; the
\* payload value of a date field is the stored value when it is not empty
\* and null when it is, whether or not the descriptor has a converter.
C18_SingleLineExceptDate ==
  fev.op = "submit" =>
    \A f \in LeavesOf(fieldsProp) :
      /\ f.type \in {"text", "url", "email", "number"} =>
           submitData[f.name] =
             (IF f.converter = "none" THEN stateFields[f.name]
              ELSE ApplyFn(f.converter, stateFields[f.name]))
      /\ f.type = "date" =>
           submitData[f.name] =
             (IF stateFields[f.name] \in {Str(""), Undefined, Null} THEN Null
              ELSE stateFields[f.name])

\* a date field with a converter holds "42" and one without holds nothing
C18_Witness ==
  /\ fev.op = "submit"
  /\ fieldsProp = SingleLineFields("date")
  /\ stateFields["conv"] = Str("42")
  /\ stateFields["plain"] = Str("")
  /\ submitData["conv"] = Str("42")
  /\ submitData["plain"] = Null

\* C19: at submit, for groups nested to any depth, no group name is a key of
\* the payload and the name of every non-group field, nested or not, is a
\* key of the one flat payload.
C19_GroupFlattening ==
  fev.op = "submit" =>
    /\ \A g \in GroupNamesOf(fieldsProp) : g \notin DOMAIN submitData
    /\ \A f \in LeavesOf(fieldsProp) :
         /\ f.name \in DOMAIN submitData
         /\ submitData[f.name].t \in {"string", "number", "boolean", "null",
                                      "undefined", "array", "NaN"}
    /\ DOMAIN submitData = {f.name : f \in LeavesOf(fieldsProp)}

\* the field inside the innermost of three nested groups was edited and
\* reaches the payload beside the top-level field
C19_Witness ==
  /\ fev.op = "submit"
  /\ fieldsProp = NestedFields(3)
  /\ submitData["name"] = Str("2020-01-01")
  /\ submitData[NestedNames[3]] = Str("42")
  /\ GroupNames[1] \in GroupNamesOf(fieldsProp)

SpecTypes ==
  {"text", "url", "email", "number", "date", "datetime", "textarea",
   "html", "checkbox", "select", "multiselect", "file", "group", "component"}

\* every descriptor has its node, at its place; its node is the error marker
\* exactly when its type is outside `types`; input, textarea, checkbox,
\* date picker and select show the stored value
RECURSIVE Dispatched(_, _, _)
Dispatched(fieldList, nodes, types) ==
  /\ Len(nodes) = Len(fieldList)
  /\ \A i \in 1..Len(fieldList) :
       /\ nodes[i].name = fieldList[i].name
       /\ nodes[i].kind = "error" <=> fieldList[i].type \notin types
       /\ nodes[i].kind \in {"input", "textarea", "checkbox", "DatePicker",
                             "Select"} =>
            nodes[i].value = Get(stateFields, fieldList[i].name)
       /\ fieldList[i].type = "group" =>
            Dispatched(fieldList[i].fields, nodes[i].children, types)

C22_EditSubmitRace ==
  ~edited =>
    \/ fieldState = setDefaults(FormFields, props.defaults)
    \/ nCalls > 0 /\ getData(fieldState) = lastCall

\* C23: a step that removes entities from the list on behalf of a Delete on
\* entity E (the local removal, or the response to a DELETE for E) removes
\* no entity other than E.
C23_DeleteOnlyTarget ==
  [][ mev'.op \in {"deleteLocal", "deleteResponse"} =>
        \A o \in DOMAIN heap :
          (o # mev'.obj /\ InList(objects, o)) => InList(objects', o)
    ]_vars

\* C24: a Delete takes the removal path without a network call for no entity
\* whose create request is in flight or whose ok create response has not
\* been merged into it yet.
C24_DeleteDuringCreate ==
  [][ mev'.op = "deleteLocal" =>
        /\ \A r \in RequestsFor(net, mev'.obj) : r.method # "POST"
        /\ \A p \in BagToSet(parsing) : p.obj # mev'.obj
    ]_vars

\* every field holds a value, has a non-empty default, and its converter and
\* reverser (if any) undo one another
RoundTripCase ==
  \A f \in LeavesOf(fieldsProp) :
    /\ f.type \in ValueTypes
    /\ f.name \in DOMAIN defaultsProp
    /\ Truthy(defaultsProp[f.name])
    /\ defaultsProp[f.name].t = "array" => defaultsProp[f.name].items # <<>>
    /\ <<f.converter, f.reverser>> \in
         {<<"none", "none">>, <<"toOption", "toValue">>}

\* C25: when every field has a non-empty default and the converters and
\* reversers undo one another, a submit of the form as it was constructed
\* hands over a payload that equals the defaults on every field name.
C25_DefaultsRoundTrip ==
  ( /\ fev.op = "submit"
    /\ stateFields = setDefaults(fieldsProp, defaultsProp)
    /\ RoundTripCase ) =>
    \A f \in LeavesOf(fieldsProp) :
      submitData[f.name] = defaultsProp[f.name]

(***************************************************************************)
(* Properties of the EventPage (checked under EventsSpec)                  *)
(***************************************************************************)
\* every request issued so far has been answered
AllAnswered ==
  \A k \in DOMAIN searches :
    searches[k].live = "done" /\ searches[k].upcoming = "done"

\* C26: once every request has been answered, the live and upcoming lists
\* on display are the answers to the current search input.
C26_DisplayCurrentSearch ==
  AllAnswered =>
    /\ liveEvents = EventsFor(searchInput)
    /\ upcomingEvents = EventsFor(searchInput)

\* C27: isLoading is true whenever a request of the latest search is still
\* in flight.
C27_LoadingFlag ==
  (searches # <<>> /\ equal(searchInput, searches[Len(searches)].value)
     /\ "pending" \in {searches[Len(searches)].live,
                       searches[Len(searches)].upcoming})
    => isLoading

(***************************************************************************)
(* Properties of the InviteCard (checked under InvitesSpec)                *)
(***************************************************************************)
\* the trimmed non-empty pieces, in input order
NonEmptyTrimmed(pieces) ==
  SelectSeq([i \in DOMAIN pieces |-> Piece(pieces[i].text, FALSE)],
            LAMBDA e : e.text # 0)

\* the j-th run of at most ten consecutive elements of list
Batch(list, j) ==
  [i \in 1..(IF Len(list) - BatchSize * (j - 1) < BatchSize
             THEN Len(list) - BatchSize * (j - 1) ELSE BatchSize) |->
     list[BatchSize * (j - 1) + i]]

\* C28: with more than ten addresses entered, the batches sendInvites sends
\* are the consecutive runs of at most ten of the trimmed non-empty
\* addresses, in input order, every address in exactly one batch once all
\* are sent; a batch after the first is sent only in the step that receives
\* a successful answer to the batch before it, and the step that receives
\* an unsuccessful answer sends nothing and ends the run.
C28_BatchesOneAtATime ==
  /\ [](Len(emails) > BatchSize =>
          /\ sent # <<>>
          /\ \A j \in DOMAIN sent :
               /\ sent[j] = Batch(emails, j)
               /\ Len(sent[j]) \in 1..BatchSize
          /\ (phase = "returned" /\ iev.op = "answered" /\ iev.success) =>
               BatchSize * Len(sent) >= Len(emails))
  /\ [][ /\ iev'.op = "send" => emails' = NonEmptyTrimmed(inviteEmails)
         /\ (Len(emails') > BatchSize /\ iev'.op # "send" /\ sent' # sent) =>
              /\ iev'.op = "answered" /\ iev'.success
              /\ awaiting /\ awaiting'
              /\ sent' = Append(sent, Batch(emails, Len(sent) + 1))
         /\ (Len(emails) > BatchSize /\ iev'.op = "answered"
               /\ ~iev'.success) =>
              /\ sent' = sent
              /\ ~awaiting'
              /\ phase' = "returned"
         /\ (phase \in {"returned", "threw"} /\ iev'.op # "send") =>
              sent' = sent /\ ~awaiting' ]_vars

\* a run over 21 messy addresses has sent its three batches and returned
C28_Witness ==
  /\ phase = "returned"
  /\ iev.op = "answered" /\ iev.success
  /\ Len(emails) = 2 * BatchSize + 1
  /\ Len(sent) = 3
  /\ Len(sent[3]) = 1

\* C29: once a run of sendInvites has ended, by returning or by an
\* exception, isInviting is false and invitePercentage is null.
C29_RunEndsCleared ==
  phase \in {"returned", "threw"} =>
    ~isInviting /\ invitePercentage = NoPercentage
(***************************************************************************)
(* Properties of the TabView (checked under TabsSpec)                      *)
(***************************************************************************)
\* C21: a click on an enabled tab makes that tab the current tab and makes
\* the fragment of the URL '#' followed by the tab's name; after any number
\* of clicks the current tab and the fragment name the tab clicked last.
C21_ClickSelectsTab ==
  /\ [][ tev'.op = "click" =>
           /\ currentTab' = tev'.name
           /\ Len(windowLocation'.hash) = 2
           /\ Head(windowLocation'.hash) = "#"
           /\ Tail(windowLocation'.hash) = tev'.name
           /\ windowLocation'.path = windowLocation.path ]_vars
  /\ [](clicked # <<>> =>
          /\ currentTab = clicked[Len(clicked)]
          /\ windowLocation.hash = <<"#">> \o clicked[Len(clicked)])

\* Clubs, Subscriptions and Profile were clicked in this order
C21_Witness ==
  /\ clicked = <<<<"Clubs">>, <<"Subscriptions">>, <<"Profile">>>>
  /\ tev = TEv("click", <<"Profile">>)
  /\ currentTab = <<"Profile">>
  /\ windowLocation.hash = <<"#", "Profile">>
====
